---- MODULE Spec2Model ----
(***************************************************************************)
(* A model of custom_components/smart_reminders/__init__.py: the Reminder  *)
(* value with its compiled recurrence, and the ReminderManager that arms   *)
(* one-shot timers, runs the actions of a reminder when its timer fires    *)
(* and re-arms or retires the reminder.                                    *)
(*                                                                         *)
(* Time is a single UTC clock counted in whole units (one unit = the       *)
(* period of FREQ with INTERVAL=1).  An Optional value of the source is a  *)
(* set with at most one element: None is {} and a value v is {v}.          *)
(***************************************************************************)
EXTENDS Integers, Sequences, FiniteSets, Bags, TLC

VARIABLES
    now,          \* datetime.utcnow(), the host's UTC clock
    objs,         \* the Reminder objects constructed so far, by object identity
    _reminders,   \* ReminderManager._reminders: id -> Reminder (object identity)
    timers,       \* timers armed by async_track_point_in_utc_time and not yet fired
    handled,      \* per Reminder object, the armed instants _handle_trigger ran for
    tasks,        \* the tasks made by hass.async_create_task, with their status
    last          \* the last service call or callback run on the event loop

vars == <<now, objs, _reminders, timers, handled, tasks, last>>

----------------------------------------------------------------------------
(* Bounds of the model. *)

\* the clock runs from 0 to MaxTime
MaxTime == 3
\* the largest COUNT of a recurrence rule (COUNT absent is written 0)
MaxCount == 2
\* the longest action list of a reminder
MaxActions == 2

\* start instants a request may name
Starts == 0..1
\* INTERVAL values of a recurrence rule
Intervals == 1..2

----------------------------------------------------------------------------
(* Python values. *)

None == {}
Some(v) == {v}
Val(o) == CHOOSE v \in o : TRUE

\* truthiness of an Optional[str]: None and "" are falsy
TruthyStr(o) == o # None /\ Val(o) # <<>>

EVENT_REMINDER_TRIGGERED == "reminder_triggered"

Min(S) == CHOOSE x \in S : \A y \in S : x <= y

----------------------------------------------------------------------------
(* Strings the code takes apart are sequences of segments, "." being a     *)
(* segment of its own: "mobile_app.notify" is <<"mobile_app",".","notify">>.*)

\* index of the first "." of s, or 0
FirstDot(s) ==
    LET dots == {i \in 1..Len(s) : s[i] = "."}
    IN IF dots = {} THEN 0 ELSE Min(dots)

\* str.split(".", 1): the list of parts, one part when s holds no "."
Split1(s) ==
    LET d == FirstDot(s)
    IN IF d = 0 THEN <<s>>
       ELSE <<SubSeq(s, 1, d - 1), SubSeq(s, d + 1, Len(s))>>

----------------------------------------------------------------------------
(* Recurrence: rrulestr(rule, dtstart=start) and rrule.after(dt, inc=False). *)

\* the text of a rule: freq "" is the empty string, "BOGUS" a text rrulestr
\* rejects, "DAILY" a rule FREQ=DAILY;INTERVAL=interval[;COUNT=count]
EmptyRuleText == [freq |-> "", interval |-> 0, count |-> 0]
BogusRuleText == [freq |-> "BOGUS", interval |-> 0, count |-> 0]
RuleTexts ==
    {EmptyRuleText, BogusRuleText}
        \cup [freq : {"DAILY"}, interval : Intervals, count : 0..MaxCount]

\* a compilation that takes any text for a rule of one instant
rrulestrLenient(text, dtstart) ==
    IF text.freq = "DAILY"
    THEN Some([dtstart |-> dtstart, interval |-> text.interval, count |-> text.count])
    ELSE Some([dtstart |-> dtstart, interval |-> 1, count |-> 1])

\* rrulestr: the compiled rule, or None where rrulestr raises ValueError
rrulestr(text, dtstart) ==
    IF text.freq = "DAILY"
    THEN Some([dtstart |-> dtstart, interval |-> text.interval, count |-> text.count])
    ELSE None

\* the instants the compiled rule generates, as far as any clock value needs
RuleInstants(rule) ==
    {rule.dtstart + k * rule.interval :
        k \in {j \in 0..(MaxTime + 1) : rule.count = 0 \/ j < rule.count}}

\* after(dt, inc=True): the first generated instant at or after dt
AfterInclusive(rule, dt) ==
    LET later == {i \in RuleInstants(rule) : i >= dt}
    IN IF later = {} THEN None ELSE Some(Min(later))

\* the instant one interval after dt, while the rule has instants after dt
AfterDrifting(rule, dt) ==
    IF {i \in RuleInstants(rule) : i > dt} = {} THEN None ELSE Some(dt + rule.interval)

\* the last generated instant after dt in place of the first
AfterLast(rule, dt) ==
    LET later == {i \in RuleInstants(rule) : i > dt}
    IN IF later = {} THEN None ELSE Some(CHOOSE x \in later : \A y \in later : y <= x)

\* rrule.after(dt, inc=False): the first generated instant strictly after dt
After(rule, dt) ==
    LET later == {i \in RuleInstants(rule) : i > dt}
    IN IF later = {} THEN None ELSE Some(Min(later))

----------------------------------------------------------------------------
(* ReminderAction values. *)

EmptyDict == <<>>

\* a merge in which the keys of d1 stay as they are
UpdateKeepDefault(d1, d2) ==
    [k \in (DOMAIN d1) \cup (DOMAIN d2) |-> IF k \in DOMAIN d1 THEN d1[k] ELSE d2[k]]

\* dict.update: the keys of d2 override those of d1
Update(d1, d2) ==
    [k \in (DOMAIN d1) \cup (DOMAIN d2) |-> IF k \in DOMAIN d2 THEN d2[k] ELSE d1[k]]

ReminderAction(type, service, entity_id, data) ==
    [type |-> type, service |-> service, entity_id |-> entity_id, data |-> data]

Kitchen == <<"media_player", ".", "kitchen">>
MobileApp == <<"mobile_app", ".", "notify">>
NoDot == <<"notify">>

\* the actions a request may carry: well-formed and malformed ones of each kind
ActionPool ==
    {ReminderAction("tts", None, e, EmptyDict) : e \in {None, Some(Kitchen)}}
    \cup {ReminderAction("notify", Some(MobileApp), None, d) :
            d \in {EmptyDict, [title |-> "Reminder"], [message |-> "Override"]}}
    \cup {ReminderAction("notify", s, None, EmptyDict) : s \in {None, Some(NoDot)}}
    \cup {ReminderAction("email", Some(MobileApp), Some(Kitchen), EmptyDict)}

SeqsUpTo(S, n) == UNION {[1..k -> S] : k \in 0..n}

Messages == {"Take pills"}

----------------------------------------------------------------------------
(* Reminder. *)

\* a start given to the constructor: a datetime (isStr FALSE, parsed the
\* instant), or a text (isStr TRUE) with what dateparser.parse makes of it
StartInputs ==
    [isStr : BOOLEAN, parsed : {Some(t) : t \in Starts}]
        \cup {[isStr |-> TRUE, parsed |-> None]}

\* dateparser.parse: the instant a text resolves to, or None
dateparser_parse(start) == start.parsed

\* Reminder.__post_init__: the constructed Reminder, or None where it raises
\* ValueError (unparseable start, rule text rrulestr rejects)
PostInit(message, start, rrule, actions, id) ==
    LET parsed == IF start.isStr THEN dateparser_parse(start) ELSE start.parsed
        truthy == rrule # None /\ Val(rrule).freq # ""
        compiled == IF truthy /\ parsed # None
                    THEN rrulestr(Val(rrule), Val(parsed)) ELSE None
    IN IF parsed = None \/ (truthy /\ compiled = None)
       THEN None
       ELSE Some([message |-> message, start |-> Val(parsed), rrule |-> rrule,
                  actions |-> actions, id |-> id,
                  _cancel |-> None, _rrule |-> compiled])

\* Reminder.next_occurrence, read at clock value t
next_occurrence(reminder, t) ==
    IF reminder._rrule # None THEN After(Val(reminder._rrule), t) ELSE None

----------------------------------------------------------------------------
(* ReminderManager. *)

\* the values uuid.uuid4().hex yields for the reminders constructed, in the
\* order they are constructed; no value is drawn twice
Uuids == <<"1f0e", "9c3a">>
Ids == {Uuids[k] : k \in 1..Len(Uuids)}

Timer(o, when) == [rem |-> o, when |-> when]

\* an insertion that leaves a key already present as it is
PutIfAbsent(m, id, o) ==
    [k \in (DOMAIN m) \cup {id} |-> IF k \in DOMAIN m THEN m[k] ELSE o]

\* {id: reminder}[id] = o
Put(m, id, o) == [k \in (DOMAIN m) \cup {id} |-> IF k = id THEN o ELSE m[k]]

\* a pop that empties the mapping
PopAll(m, id) == <<>>

\* a pop that removes nothing
PopNothing(m, id) == m

\* dict.pop(id, None)
Pop(m, id) == [k \in (DOMAIN m) \ {id} |-> m[k]]

\* the record of one call or callback: op, the Reminder object and armed
\* instant it ran for, the request of a handle_add, whether it raised, the
\* outbound effects in order, and whether next_occurrence was called and
\* what it returned
NoRequest == [start |-> [isStr |-> FALSE, parsed |-> None], rrule |-> None]
Ran(op, o, when, request, raised, effects, called, next) ==
    [op |-> op, rem |-> o, when |-> when, request |-> request, raised |-> raised,
     effects |-> effects, called |-> called, next |-> next]

\* hass.services.async_call(domain, service, data, blocking=True), launched
\* with hass.async_create_task
Call(domain, service, data) ==
    [kind |-> "async_call", domain |-> domain, service |-> service, data |-> data,
     blocking |-> TRUE]

\* hass.bus.async_fire(EVENT_REMINDER_TRIGGERED, {id, message})
Fired(reminder) ==
    [kind |-> "async_fire", event_type |-> EVENT_REMINDER_TRIGGERED,
     data |-> [id |-> reminder.id, message |-> reminder.message]]

\* a loop body that raises on an action it cannot dispatch
DispatchOneStrict(action, message) ==
    IF action.type = "tts" /\ TruthyStr(action.entity_id)
    THEN [calls |-> <<Call(<<"tts">>, <<"google_translate_say">>,
                          [entity_id |-> Val(action.entity_id),
                           message |-> message])>>,
          raised |-> FALSE]
    ELSE IF action.type = "notify" /\ TruthyStr(action.service)
    THEN LET parts == Split1(Val(action.service)) IN
         IF Len(parts) # 2
         THEN [calls |-> <<>>, raised |-> TRUE]
         ELSE [calls |-> <<Call(parts[1], parts[2],
                               Update([message |-> message], action.data))>>,
               raised |-> FALSE]
    ELSE [calls |-> <<>>, raised |-> TRUE]

\* one pass of the body of the for loop of _handle_trigger: the calls it
\* launches (none, or one), and whether it raised
DispatchOne(action, message) ==
    IF action.type = "tts" /\ TruthyStr(action.entity_id)
    THEN [calls |-> <<Call(<<"tts">>, <<"google_translate_say">>,
                          [entity_id |-> Val(action.entity_id),
                           message |-> message])>>,
          raised |-> FALSE]
    ELSE IF action.type = "notify" /\ TruthyStr(action.service)
    THEN LET parts == Split1(Val(action.service)) IN
         \* service_domain, service_name = parts: ValueError unless two parts
         IF Len(parts) # 2
         THEN [calls |-> <<>>, raised |-> TRUE]
         ELSE [calls |-> <<Call(parts[1], parts[2],
                               Update([message |-> message], action.data))>>,
               raised |-> FALSE]
    ELSE [calls |-> <<>>, raised |-> FALSE]

\* a loop that puts each call before the calls launched so far
RECURSIVE DispatchReversed(_, _, _, _)
DispatchReversed(actions, i, message, calls) ==
    IF i > Len(actions)
    THEN [calls |-> calls, raised |-> FALSE]
    ELSE LET one == DispatchOne(actions[i], message) IN
         IF one.raised
         THEN [calls |-> calls, raised |-> TRUE]
         ELSE DispatchReversed(actions, i + 1, message, one.calls \o calls)

\* the for loop of _handle_trigger over actions[i..]: the calls launched so
\* far, and whether an action raised (the loop ends there)
RECURSIVE Dispatch(_, _, _, _)
Dispatch(actions, i, message, calls) ==
    IF i > Len(actions)
    THEN [calls |-> calls, raised |-> FALSE]
    ELSE LET one == DispatchOne(actions[i], message) IN
         IF one.raised
         THEN [calls |-> calls, raised |-> TRUE]
         ELSE Dispatch(actions, i + 1, message, calls \o one.calls)

\* a dispatch that is awaited: the task has run to its end when the loop
\* goes on
LaunchAwaited(call) == [call |-> call, status |-> "done"]

\* hass.async_create_task(coroutine): a task, not awaited, that has yet to run
Launch(call) == [call |-> call, status |-> "pending"]

\* the tasks tk and one task more for each of the calls
RECURSIVE LaunchAll(_, _)
LaunchAll(tk, calls) ==
    IF calls = <<>>
    THEN tk
    ELSE LaunchAll(tk (+) SetToBag({Launch(Head(calls))}), Tail(calls))

\* a timer that stays armed after it fired
ExpireNever(tm, o, when) == tm

\* a timer of async_track_point_in_utc_time is one-shot: firing disarms it
Expire(tm, o, when) == tm (-) SetToBag({Timer(o, when)})

\* a scheduler that drops an instant the clock has passed
ScheduleFutureOnly(tm, o, when) ==
    IF when < now THEN tm ELSE tm (+) SetToBag({Timer(o, when)})

\* ReminderManager._schedule: one more armed timer, its handle on the reminder
ScheduleTimers(tm, o, when) == tm (+) SetToBag({Timer(o, when)})
ScheduleObjs(os, o, when) == [os EXCEPT ![o]._cancel = Some(Timer(o, when))]

\* ReminderManager.add, for the Reminder object o just constructed
Add(reminder, request) ==
    LET o == Len(objs) + 1 IN
    /\ objs' = ScheduleObjs(Append(objs, reminder), o, reminder.start)
    /\ _reminders' = Put(_reminders, reminder.id, o)
    /\ timers' = ScheduleTimers(timers, o, reminder.start)
    /\ handled' = Append(handled, <<>>)
    /\ last' = Ran("handle_add", o, reminder.start, request, FALSE, <<>>, FALSE, None)
    /\ UNCHANGED <<now, tasks>>

\* the add_reminder service: handle_add builds the actions and the Reminder
\* (a fresh uuid4 id) and hands it to manager.add; a ValueError of the
\* constructor ends the call
HandleAdd(message, start, rrule, actions) ==
    LET made == PostInit(message, start, rrule, actions, Uuids[Len(objs) + 1])
        request == [start |-> start, rrule |-> rrule]
    IN IF made = None
       THEN /\ last' = Ran("handle_add", 0, 0, request, TRUE, <<>>, FALSE, None)
            /\ UNCHANGED <<now, objs, _reminders, timers, handled, tasks>>
       ELSE Add(Val(made), request)

\* ReminderManager._handle_trigger, run by the timer it was armed with
HandleTrigger(o, when) ==
    LET reminder == objs[o]
        run == Dispatch(reminder.actions, 1, reminder.message, <<>>)
        next_time == next_occurrence(reminder, now)
        fired == Expire(timers, o, when)
    IN /\ handled' = [handled EXCEPT ![o] = Append(@, when)]
       /\ tasks' = LaunchAll(tasks, run.calls)
       /\ UNCHANGED now
       /\ IF run.raised
          THEN /\ timers' = fired
               /\ last' = Ran("trigger", o, when, NoRequest, TRUE, run.calls, FALSE, None)
               /\ UNCHANGED <<objs, _reminders>>
          ELSE /\ last' = Ran("trigger", o, when, NoRequest, FALSE,
                               Append(run.calls, Fired(reminder)), TRUE, next_time)
               /\ IF next_time # None
                  THEN /\ timers' = ScheduleTimers(fired, o, Val(next_time))
                       /\ objs' = ScheduleObjs(objs, o, Val(next_time))
                       /\ UNCHANGED _reminders
                  ELSE /\ _reminders' = Pop(_reminders, reminder.id)
                       /\ timers' = fired
                       /\ UNCHANGED objs

\* async_track_point_in_utc_time runs the callback once, when the clock has
\* reached the armed instant (at once when the instant has already passed)
TimerFires ==
    \E t \in BagToSet(timers) :
        /\ t.when <= now
        /\ HandleTrigger(t.rem, t.when)

\* the clock advances
Tick ==
    /\ now < MaxTime
    /\ now' = now + 1
    /\ UNCHANGED <<objs, _reminders, timers, handled, tasks, last>>

\* the status of one task of the bag tk changed from pending to status
Settle(tk, task, status) ==
    (tk (-) SetToBag({task})) (+) SetToBag({[task EXCEPT !.status = status]})

\* the event loop runs a pending task and its service call returns
TaskCompletes ==
    /\ \E task \in BagToSet(tasks) :
          /\ task.status = "pending"
          /\ tasks' = Settle(tasks, task, "done")
    /\ UNCHANGED <<now, objs, _reminders, timers, handled, last>>

\* the event loop runs a pending task and its service call raises: the
\* exception goes to the host's task-failure handling
TaskFails ==
    /\ \E task \in BagToSet(tasks) :
          /\ task.status = "pending"
          /\ tasks' = Settle(tasks, task, "failed")
    /\ UNCHANGED <<now, objs, _reminders, timers, handled, last>>

\* a call of the add_reminder service, with at most limit reminders made
AddReminder(limit, starts, rules, lists) ==
    /\ Len(objs) < limit
    /\ \E message \in Messages, start \in starts, rrule \in rules, actions \in lists :
            HandleAdd(message, start, rrule, actions)

RuleInputs == {None} \cup {Some(t) : t \in RuleTexts}

\* the action lists of the requests of Spec: none, one that is dispatched,
\* one whose notify target has no "."
FewLists ==
    {<<>>, <<ReminderAction("tts", None, Some(Kitchen), EmptyDict)>>,
     <<ReminderAction("notify", Some(NoDot), None, EmptyDict)>>}

Init ==
    /\ now = 0
    /\ objs = <<>>
    /\ _reminders = <<>>
    /\ timers = EmptyBag
    /\ handled = <<>>
    /\ tasks = EmptyBag
    /\ last = Ran("setup", 0, 0, NoRequest, FALSE, <<>>, FALSE, None)

Next ==
    \/ AddReminder(Len(Uuids), StartInputs, RuleInputs, FewLists)
    \/ TimerFires
    \/ Tick

Spec == Init /\ [][Next]_vars

\* one reminder, started at 0, one-shot or FREQ=DAILY;COUNT=2, with every
\* action list of up to MaxActions actions
OneShotOrTwice ==
    {None, Some([freq |-> "DAILY", interval |-> 1, count |-> 2])}

NextDispatch ==
    \/ AddReminder(1, {[isStr |-> FALSE, parsed |-> Some(0)]}, OneShotOrTwice,
                   SeqsUpTo(ActionPool, MaxActions))
    \/ TimerFires
    \/ TaskCompletes
    \/ TaskFails
    \/ Tick

SpecDispatch == Init /\ [][NextDispatch]_vars

\* the timer callback of the Reminder object o runs
FireOf(o) ==
    \E t \in BagToSet(timers) :
        /\ t.rem = o
        /\ t.when <= now
        /\ HandleTrigger(t.rem, t.when)

\* requests with a datetime start and a rule that compiles, or none
DatetimeStarts == [isStr : {FALSE}, parsed : {Some(t) : t \in Starts}]
CompilingRules == {None} \cup {Some(t) : t \in {x \in RuleTexts : x.freq = "DAILY"}}

\* no action, or one notify action whose target has no "."
NoneOrNoDot == {<<>>, <<ReminderAction("notify", Some(NoDot), None, EmptyDict)>>}

NextFair ==
    \/ AddReminder(Len(Uuids), DatetimeStarts, CompilingRules, NoneOrNoDot)
    \/ TimerFires
    \/ Tick

\* the host runs every timer callback that is due and its clock advances
SpecFair ==
    /\ Init
    /\ [][NextFair]_vars
    /\ \A o \in 1..Len(Uuids) : WF_vars(FireOf(o))
    /\ WF_vars(Tick)

\* manager.add called with a Reminder constructed with an id of the
\* caller's choice, which may be the id of a reminder already added
AddWithId(limit, starts, rules, lists) ==
    /\ Len(objs) < limit
    /\ \E id \in Ids, message \in Messages, start \in starts, rrule \in rules,
             actions \in lists :
          LET made == PostInit(message, start, rrule, actions, id)
          IN /\ made # None
             /\ Add(Val(made), [start |-> start, rrule |-> rrule])

NextCollide ==
    \/ AddWithId(Len(Uuids), DatetimeStarts, CompilingRules, NoneOrNoDot)
    \/ TimerFires
    \/ Tick

SpecCollide == Init /\ [][NextCollide]_vars

----------------------------------------------------------------------------
(* Properties. *)

Objects == 1..Len(objs)

\* the Reminder object o is a value of the mapping m
LiveIn(m, o) == \E id \in DOMAIN m : m[id] = o
Live(o) == LiveIn(_reminders, o)

\* the number of timers of the bag tm armed for the Reminder object o
ArmedIn(tm, o) ==
    LET mine == {t \in BagToSet(tm) : t.rem = o}
    IN BagCardinality([t \in mine |-> tm[t]])
Armed(o) == ArmedIn(timers, o)

\* a step in which _handle_trigger ran for the Reminder object o
Triggers(o) == o \in DOMAIN handled /\ handled'[o] # handled[o]

\* t is an occurrence of the reminder: its start, or an instant of its rule
\* (start + k * INTERVAL with k below COUNT, when COUNT is given)
IsOccurrence(reminder, t) ==
    \/ t = reminder.start
    \/ /\ reminder._rrule # None
       /\ t >= reminder.start
       /\ LET text == Val(reminder.rrule)
              d == t - reminder.start
          IN /\ d % text.interval = 0
             /\ text.count = 0 \/ d \div text.interval < text.count

\* C1: every Reminder present in the manager's mapping has at most one
\* armed (scheduled, not yet fired) timer.
AtMostOneArmedTimer == \A o \in Objects : Live(o) => Armed(o) <= 1

\* a live recurring reminder that was triggered and re-armed
WitnessRearmedOnce ==
    \E o \in Objects : Live(o) /\ Armed(o) = 1 /\ Len(handled[o]) >= 1

\* C2: a Reminder is in the mapping if and only if it has an occurrence
\* still to fire, that is, a timer armed for it.
LiveIffPending == \A o \in Objects : Live(o) <=> Armed(o) >= 1

\* the occurrences of the reminder up to and including instant t
OccurrencesUpTo(reminder, t) == {i \in 0..t : IsOccurrence(reminder, i)}

\* the Reminder object o is retired: triggered, out of the mapping, no timer
Retired(o) == Len(handled[o]) >= 1 /\ ~Live(o) /\ Armed(o) = 0

RearmWithoutDrift ==
    [][\A o \in Objects :
          Triggers(o) =>
              \A t \in BagToSet(timers') :
                  t.rem = o =>
                      /\ IsOccurrence(objs[o], t.when)
                      /\ t.when > now
                      /\ \A k \in 1..Len(handled'[o]) : handled'[o][k] < t.when]_vars

\* a late trigger re-armed its reminder past an occurrence it skipped
WitnessLateRearm ==
    /\ last.op = "trigger"
    /\ last.next # None
    /\ Val(last.next) > last.when + Val(objs[last.rem]._rrule).interval
    /\ Armed(last.rem) = 1

\* C5: a one-shot reminder yields next_occurrence = None at every time, and
\* once triggered it is out of the mapping with no timer armed for it.
OneShotRetiredByItsTrigger ==
    \A o \in Objects :
        objs[o]._rrule = None =>
            /\ \A t \in 0..MaxTime : next_occurrence(objs[o], t) = None
            /\ Len(handled[o]) >= 1 => ~Live(o) /\ Armed(o) = 0

Size(m) == Cardinality(DOMAIN m)

\* C6: a trigger for which next_occurrence returns an instant leaves the
\* reminder in the mapping and the size of the mapping as it was; the
\* trigger for which it returns None removes the reminder and makes the
\* mapping one smaller; any other trigger leaves the mapping alone; and a
\* reminder leaves the mapping in no other step.
MappingShrinksOnFinalTrigger ==
    [][\A o \in Objects :
          /\ Triggers(o) =>
                IF last'.called /\ next_occurrence(objs[o], now) # None
                THEN LiveIn(_reminders', o) /\ Size(_reminders') = Size(_reminders)
                ELSE IF last'.called
                THEN ~LiveIn(_reminders', o) /\ Size(_reminders') = Size(_reminders) - 1
                ELSE _reminders' = _reminders
          /\ Live(o) /\ ~LiveIn(_reminders', o) =>
                Triggers(o) /\ next_occurrence(objs[o], now) = None]_vars

\* a recurring reminder removed by its second or a later trigger
WitnessFinalTrigger ==
    /\ last.op = "trigger"
    /\ last.called
    /\ last.next = None
    /\ objs[last.rem]._rrule # None
    /\ Len(handled[last.rem]) >= 2
    /\ ~Live(last.rem)

\* the first k runs of _handle_trigger for the reminder were for its first
\* k occurrences, and the k-th ran at its armed instant, clock value t
OnTime(reminder, runs, t) ==
    /\ \A j \in 1..Len(runs) :
          runs[j] = reminder.start + (j - 1) * Val(reminder._rrule).interval
    /\ runs[Len(runs)] = t

\* C7: for a reminder whose rule has n occurrences (COUNT=n), with every
\* trigger run at its armed instant, the k-th trigger (k < n) re-arms the
\* timer for occurrence k+1 and the n-th removes the reminder from the
\* mapping, arming nothing: n triggers in all.
CountedRuleTriggersNTimes ==
    [][\A o \in Objects :
          (/\ Triggers(o)
           /\ objs[o]._rrule # None
           /\ Val(objs[o]._rrule).count > 0
           /\ OnTime(objs[o], handled'[o], now)) =>
              LET n == Val(objs[o]._rrule).count
                  k == Len(handled'[o])
                  following == objs[o].start + k * Val(objs[o]._rrule).interval
              IN /\ k <= n
                 /\ k < n => /\ LiveIn(_reminders', o)
                             /\ ArmedIn(timers', o) = 1
                             /\ Timer(o, following) \in BagToSet(timers')
                 /\ k = n => ~LiveIn(_reminders', o) /\ ArmedIn(timers', o) = 0]_vars

\* the start text of the request does not parse, or its rule text does
\* not compile
InvalidRequest(request) ==
    \/ request.start.isStr /\ request.start.parsed = None
    \/ request.rrule # None /\ Val(request.rrule).freq = "BOGUS"

\* C8: an add request whose start does not parse or whose rule does not
\* compile is rejected with an error and leaves the mapping, the timers
\* and the reminders as they were.
RejectedAddChangesNothing ==
    [][(last' # last /\ last'.op = "handle_add" /\ InvalidRequest(last'.request)) =>
          last'.raised /\ UNCHANGED <<objs, _reminders, timers>>]_vars

\* a request with a rule that does not compile was rejected while another
\* reminder was live and armed
WitnessRejectedRule ==
    /\ last.op = "handle_add"
    /\ last.raised
    /\ last.request.start.parsed # None
    /\ Val(last.request.rrule).freq = "BOGUS"
    /\ \E o \in Objects : Live(o) /\ Armed(o) = 1

\* the action is malformed: a kind that is neither tts nor notify, a tts
\* action with no entity_id, a notify action with no service
Malformed(action) ==
    \/ action.type \notin {"tts", "notify"}
    \/ action.type = "tts" /\ (action.entity_id = None \/ Val(action.entity_id) = <<>>)
    \/ action.type = "notify" /\ (action.service = None \/ Val(action.service) = <<>>)

\* a notify action whose service is not of the form domain.service_name
Undotted(action) ==
    /\ action.type = "notify"
    /\ ~Malformed(action)
    /\ \A i \in 1..Len(Val(action.service)) : Val(action.service)[i] # "."

IsCall(effect) == effect.kind = "async_call"
IsEvent(effect) == effect.kind = "async_fire"

\* the call is the dispatch of the action
CallIsFor(call, action) ==
    IF action.type = "tts"
    THEN /\ call.domain = <<"tts">>
         /\ call.data.entity_id = Val(action.entity_id)
    ELSE /\ call.domain \o <<".">> \o call.service = Val(action.service)
         /\ DOMAIN action.data \subseteq DOMAIN call.data
         /\ \A k \in DOMAIN action.data : call.data[k] = action.data[k]

\* the re-arm or removal step of the last trigger was carried out
DecisionMade ==
    /\ last.called
    /\ IF last.next # None
       THEN Live(last.rem) /\ Timer(last.rem, Val(last.next)) \in BagToSet(timers)
       ELSE ~Live(last.rem) /\ Armed(last.rem) = 0

\* C9: malformed actions are skipped in silence: the calls of a trigger
\* are the dispatches of the actions that are not malformed, in order, up
\* to the first notify action whose target has no "."; and where the list
\* has no such action nothing is raised, the event is emitted and the
\* reminder is re-armed or removed.
MalformedActionsSkipped ==
    last.op = "trigger" =>
        LET acts == objs[last.rem].actions
            stop == Min({i \in 1..Len(acts) : Undotted(acts[i])} \cup {Len(acts) + 1})
            kept == {i \in 1..(stop - 1) : ~Malformed(acts[i])}
            calls == SelectSeq(last.effects, IsCall)
        IN /\ Len(calls) = Cardinality(kept)
           /\ \A i \in kept :
                 CallIsFor(calls[Cardinality({j \in kept : j <= i})], acts[i])
           /\ stop > Len(acts) =>
                 /\ ~last.raised
                 /\ Len(SelectSeq(last.effects, IsEvent)) = 1
                 /\ DecisionMade

\* a trigger that skipped a malformed action, dispatched an action after
\* it, emitted the event and re-armed the reminder
WitnessSkippedThenDispatched ==
    /\ last.op = "trigger"
    /\ ~last.raised
    /\ last.next # None
    /\ LET acts == objs[last.rem].actions
       IN \E i, j \in 1..Len(acts) :
             i < j /\ Malformed(acts[i]) /\ ~Malformed(acts[j])
    /\ Len(SelectSeq(last.effects, IsCall)) >= 1

\* C10: every run of _handle_trigger, whatever the action list, emits
\* exactly one reminder_triggered event carrying the id and message of the
\* reminder, after the calls of the actions, and then completes the
\* re-arm or removal.
OneEventThenDecision ==
    last.op = "trigger" =>
        /\ Len(SelectSeq(last.effects, IsEvent)) = 1
        /\ last.effects[Len(last.effects)] =
              [kind |-> "async_fire", event_type |-> "reminder_triggered",
               data |-> [id |-> objs[last.rem].id, message |-> objs[last.rem].message]]
        /\ DecisionMade

\* the number of tasks of the bag tk with the status
WithStatus(tk, status) ==
    LET those == {t \in BagToSet(tk) : t.status = status}
    IN BagCardinality([t \in those |-> tk[t]])

\* a step in which a task ran to its end or failed
TaskSettles == tasks' # tasks /\ handled' = handled

\* a trigger leaves one task for each of its calls, all of them yet to run,
\* and the tasks there were as they were
LaunchedNotAwaited ==
    (\E o \in Objects : Triggers(o)) =>
        LET calls == Len(SelectSeq(last'.effects, IsCall))
        IN /\ BagCardinality(tasks') = BagCardinality(tasks) + calls
           /\ WithStatus(tasks', "pending") = WithStatus(tasks, "pending") + calls
           /\ WithStatus(tasks', "failed") = WithStatus(tasks, "failed")
           /\ WithStatus(tasks', "done") = WithStatus(tasks, "done")

\* a task that ends or fails changes nothing of the manager and is not
\* launched again
SettledUnseen ==
    TaskSettles =>
        /\ UNCHANGED <<now, objs, _reminders, timers, handled, last>>
        /\ BagCardinality(tasks') = BagCardinality(tasks)
        /\ WithStatus(tasks', "pending") = WithStatus(tasks, "pending") - 1

\* C11: dispatch is fire-and-forget: a trigger launches its calls without
\* waiting for them, a dispatch that fails or never ends changes nothing of
\* the manager and is never retried, and a timer that is due can fire
\* whatever the state of the tasks.
FireAndForget ==
    /\ [][LaunchedNotAwaited /\ SettledUnseen]_vars
    /\ []((\E t \in BagToSet(timers) : t.when <= now) => ENABLED TimerFires)

\* the second trigger of a reminder dispatched, emitted the event and made
\* its decision while a task had failed and another had yet to run
WitnessTriggerPastFailedTask ==
    /\ last.op = "trigger"
    /\ Len(handled[last.rem]) = 2
    /\ Len(SelectSeq(last.effects, IsCall)) >= 1
    /\ DecisionMade
    /\ WithStatus(tasks, "failed") >= 1
    /\ WithStatus(tasks, "pending") >= 1

\* C12: action order is preserved: the calls of a trigger are launched in
\* the order of reminder.actions (each call is the dispatch of an action
\* that stands later in the list than the action of the call before it),
\* and all of them before the event.
OrderPreserved ==
    last.op = "trigger" =>
        LET acts == objs[last.rem].actions
            calls == SelectSeq(last.effects, IsCall)
        IN /\ \E f \in [1..Len(calls) -> 1..Len(acts)] :
                 /\ \A p, q \in 1..Len(calls) : p < q => f[p] < f[q]
                 /\ \A p \in 1..Len(calls) :
                       ~Malformed(acts[f[p]]) /\ CallIsFor(calls[p], acts[f[p]])
           /\ \A p \in 1..Len(calls) : last.effects[p] = calls[p]

\* a trigger that dispatched a tts action and then a notify action
WitnessTwoCallsInOrder ==
    /\ last.op = "trigger"
    /\ ~last.raised
    /\ Len(last.effects) = 3
    /\ last.effects[1].domain = <<"tts">>
    /\ last.effects[2].domain = <<"mobile_app">>
    /\ objs[last.rem].actions[1].type = "tts"

\* the actions of the list that a trigger dispatches: those not malformed
\* that stand before the first notify action whose target has no "."
Dispatched(acts) ==
    LET stop == Min({i \in 1..Len(acts) : Undotted(acts[i])} \cup {Len(acts) + 1})
    IN {i \in 1..(stop - 1) : ~Malformed(acts[i])}

\* the place, among the calls of a trigger, of the call of action i
Rank(acts, i) == Cardinality({j \in Dispatched(acts) : j <= i})

\* C13: the call of a notify action goes to the two parts of its target,
\* the domain before the first "." and the service name after it, with the
\* payload {message: reminder.message} merged with the action's extra
\* parameters, a key of the extra parameters (message too) overriding the
\* default; mobile_app.notify with {title: Reminder} is called as
\* mobile_app / notify with {message, title: Reminder}.
NotifyPayloadMerged ==
    last.op = "trigger" =>
        LET reminder == objs[last.rem]
            acts == reminder.actions
            calls == SelectSeq(last.effects, IsCall)
        IN \A i \in Dispatched(acts) :
              acts[i].type = "notify" =>
                  /\ Rank(acts, i) <= Len(calls)
                  /\ LET call == calls[Rank(acts, i)]
                         target == Val(acts[i].service)
                         extra == acts[i].data
                     IN /\ call.domain \o <<".">> \o call.service = target
                        /\ \A j \in 1..Len(call.domain) : call.domain[j] # "."
                        /\ DOMAIN call.data = {"message"} \cup DOMAIN extra
                        /\ \A k \in DOMAIN call.data :
                              call.data[k] = IF k \in DOMAIN extra
                                             THEN extra[k] ELSE reminder.message
                        /\ (target = <<"mobile_app", ".", "notify">>
                                /\ extra = [title |-> "Reminder"]) =>
                              /\ call.domain = <<"mobile_app">>
                              /\ call.service = <<"notify">>
                              /\ call.data = [message |-> reminder.message,
                                              title |-> "Reminder"]

\* a trigger called mobile_app / notify with the message of the action's
\* extra parameters in place of the reminder's, after a call with a title
WitnessMessageOverridden ==
    /\ last.op = "trigger"
    /\ Len(last.effects) = 3
    /\ last.effects[1].data = [message |-> objs[last.rem].message, title |-> "Reminder"]
    /\ last.effects[2].domain = <<"mobile_app">>
    /\ last.effects[2].service = <<"notify">>
    /\ last.effects[2].data = [message |-> "Override"]
    /\ objs[last.rem].message # "Override"

\* i is an instant of the rule of the reminder, read off the rule text:
\* start + k * INTERVAL, with k below COUNT when COUNT is given
IsRuleInstant(reminder, i) ==
    LET text == Val(reminder.rrule)
        d == i - reminder.start
    IN /\ d >= 0
       /\ d % text.interval = 0
       /\ text.count = 0 \/ d \div text.interval < text.count

\* the instants of the rule after t; the first of them, if there is one, is
\* no later than one interval after the later of t and the start
LaterInstants(reminder, t) ==
    LET from == IF reminder.start > t THEN reminder.start ELSE t
    IN {i \in (t + 1)..(from + Val(reminder.rrule).interval) : IsRuleInstant(reminder, i)}

\* C14: for every reminder with a rule and every time t, next_occurrence at
\* t is the earliest instant of the rule strictly greater than t (never t
\* itself, never an earlier instant), and None when the rule has no instant
\* after t.
NextOccurrenceEarliestAfter ==
    \A o \in Objects :
        objs[o]._rrule # None =>
            \A t \in 0..MaxTime :
                LET later == LaterInstants(objs[o], t)
                    next_time == next_occurrence(objs[o], t)
                IN IF later = {}
                   THEN next_time = None
                   ELSE /\ next_time # None
                        /\ Val(next_time) > t
                        /\ Val(next_time) \in later
                        /\ \A i \in later : Val(next_time) <= i

\* the clock stands on the second and last instant of a rule whose first
\* trigger armed that instant: next_occurrence is None there, and it was
\* that instant one unit before
WitnessLastInstantReached ==
    \E o \in Objects :
        /\ objs[o]._rrule # None
        /\ Val(objs[o]._rrule).count = 2
        /\ Len(handled[o]) = 1
        /\ Timer(o, now) \in BagToSet(timers)
        /\ now = objs[o].start + Val(objs[o]._rrule).interval
        /\ next_occurrence(objs[o], now) = None
        /\ next_occurrence(objs[o], now - 1) = Some(now)

\* an add of a reminder whose start the clock has passed puts it in the
\* mapping and arms a timer for that start
LateAddArmed ==
    \A o \in 1..Len(Uuids) :
        (o \notin Objects /\ o \in 1..Len(objs') /\ objs'[o].start < now) =>
            /\ LiveIn(_reminders', o)
            /\ Timer(o, objs'[o].start) \in BagToSet(timers')

\* C15: catch-up: a reminder added with a start that has already elapsed
\* is inserted and armed for that start all the same, and once the host
\* runs its timer it is triggered, not dropped.
CatchUp ==
    /\ [][LateAddArmed]_vars
    /\ \A o \in 1..Len(Uuids) :
          (o \in Objects /\ objs[o].start < now /\ handled[o] = <<>>)
              ~> (o \in Objects /\ Len(handled[o]) >= 1 /\ handled[o][1] = objs[o].start)

\* a reminder was just added with a start before the clock: it is in the
\* mapping with a timer armed for the elapsed start
WitnessLateAdd ==
    /\ last.op = "handle_add"
    /\ ~last.raised
    /\ last.when < now
    /\ Live(last.rem)
    /\ Timer(last.rem, last.when) \in BagToSet(timers)

\* C16: an add with the id of a reminder already in the mapping does not
\* leak the earlier reminder's timer: no timer is armed for a reminder that
\* the mapping no longer holds.
NoTimerForUnmapped == \A t \in BagToSet(timers) : Live(t.rem)

\* a step that adds a Reminder object whose id is a key of the mapping
Collides(o) ==
    /\ o \notin Objects
    /\ o \in 1..Len(objs')
    /\ objs'[o].id \in DOMAIN _reminders

\* C17: add does not fail on an id collision: it completes, the mapping
\* then maps the id to the reminder just added (last write wins) with as
\* many keys as before, and a timer is armed for the start of the reminder
\* just added.
LastWriteWins ==
    [][\A o \in 1..Len(Uuids) :
          Collides(o) =>
              /\ last'.op = "handle_add" /\ last'.rem = o /\ ~last'.raised
              /\ _reminders'[objs'[o].id] = o
              /\ DOMAIN _reminders' = DOMAIN _reminders
              /\ Size(_reminders') = Size(_reminders)
              /\ Timer(o, objs'[o].start) \in BagToSet(timers')
              /\ objs'[o]._cancel = Some(Timer(o, objs'[o].start))]_vars

\* a second reminder was just added with the id of the first, which was
\* still in the mapping: the id now maps to the second
WitnessIdCollision ==
    /\ Len(objs) = 2
    /\ objs[1].id = objs[2].id
    /\ last.op = "handle_add"
    /\ last.rem = 2
    /\ handled[1] = <<>>
    /\ Live(2)
    /\ ~Live(1)
    /\ Size(_reminders) = 1

\* C18: between manager operations each reminder in the mapping has exactly
\* one armed timer, never none; a reminder removed after its last trigger
\* has no armed timer, and is never armed or put in the mapping again.
OneTimerWhileLiveNoneAfter ==
    /\ [](\A o \in Objects :
            /\ Live(o) => Armed(o) = 1
            /\ (Len(handled[o]) >= 1 /\ ~Live(o)) => Armed(o) = 0)
    /\ [][\A o \in Objects :
             Retired(o) => ~LiveIn(_reminders', o) /\ ArmedIn(timers', o) = 0]_vars

\* a step in which add ran for the Reminder object o just constructed
Adds(o) == o \notin Objects /\ o \in 1..Len(objs')

\* the timers of the bag tm armed for the Reminder object o, with their
\* numbers
TimersOf(tm, o) == [t \in {x \in BagToSet(tm) : x.rem = o} |-> tm[t]]

\* C19: an add or a trigger of one reminder leaves the others alone: every
\* reminder with a different id keeps its mapping entry, its armed timers
\* with their instants, its fields and handled instants, and the
\* occurrence next_occurrence yields for it.
OthersUnchanged ==
    [][\A o \in 1..Len(Uuids) :
          (Adds(o) \/ Triggers(o)) =>
              \A p \in Objects :
                  objs'[p].id # objs'[o].id =>
                      /\ objs'[p] = objs[p]
                      /\ handled'[p] = handled[p]
                      /\ LiveIn(_reminders', p) <=> Live(p)
                      /\ objs[p].id \in DOMAIN _reminders' <=>
                            objs[p].id \in DOMAIN _reminders
                      /\ objs[p].id \in DOMAIN _reminders =>
                            _reminders'[objs[p].id] = _reminders[objs[p].id]
                      /\ TimersOf(timers', p) = TimersOf(timers, p)
                      /\ next_occurrence(objs'[p], now') = next_occurrence(objs[p], now)]_vars

\* the last trigger of a reminder removed it while a reminder with another
\* id, triggered before, was in the mapping with its timer armed
WitnessOtherUntouched ==
    /\ last.op = "trigger"
    /\ last.called
    /\ last.next = None
    /\ ~Live(last.rem)
    /\ \E p \in Objects :
          /\ objs[p].id # objs[last.rem].id
          /\ Live(p)
          /\ Armed(p) = 1
          /\ Len(handled[p]) >= 1

\* the reminder is one-shot or its rule has a COUNT, and its last instant
\* is one the clock reaches
EndsInTime(reminder) ==
    \/ reminder._rrule = None
    \/ /\ Val(reminder._rrule).count > 0
       /\ reminder.start
             + (Val(reminder._rrule).count - 1) * Val(reminder._rrule).interval
                <= MaxTime

\* C20: with every due timer fired and the clock advancing, every reminder
\* that is one-shot or has a bounded recurrence is removed from the mapping
\* after finitely many triggers, and once every reminder has been added
\* the mapping becomes empty with no timer armed.
BoundedEventuallyRetired ==
    /\ \A o \in 1..Len(Uuids) :
          (o \in Objects /\ EndsInTime(objs[o])) ~> (~Live(o) /\ Armed(o) = 0)
    /\ (Len(objs) = Len(Uuids) /\ \A o \in Objects : EndsInTime(objs[o]))
          ~> (_reminders = <<>> /\ timers = EmptyBag)

====
